---- MODULE Spec2Model ----
(***************************************************************************)
(* Session / WebSocket relay of the collaborative coding-interview server  *)
(* (docker-server.js; server.js holds the same handlers).                  *)
(*                                                                         *)
(* Time is counted in whole hours and kept relative: a session carries its *)
(* age (now - createdAt, the only way the code reads createdAt), a timer   *)
(* the hours left until it fires.  The grace timeout and the sweep         *)
(* interval are one hour, the maximum age is 24 hours.  Any number of      *)
(* events may happen within one hour; an hour passes once every timer due  *)
(* in the current hour has fired.                                          *)
(*                                                                         *)
(* sent records, per connection, the messages the handler that ran last    *)
(* passed to that connection's send(); last names that handler.            *)
(*                                                                         *)
(* The browser client (frontend/src/App.jsx) and the two directions of its *)
(* socket are the variables up, down, got, editor and edits; only the      *)
(* specification SpecClient moves them.                                    *)
(***************************************************************************)
EXTENDS Integers, Sequences, FiniteSets, TLC

\* ---------------------------------------------------------------- bounds
MaxSessions == 2
MaxConns == 2
MaxHours == 1
MaxEdits == 3
MaxRoomEdits == 1

\* ------------------------------------------------------ program constants
GraceDelayMs == 3600000
SweepIntervalMs == 3600000
MsPerHour == 1000 * 60 * 60
MaxAgeHours == 24

Grace == GraceDelayMs \div MsPerHour
SweepInterval == SweepIntervalMs \div MsPerHour

DefaultCode == "// Start coding here...\n"
DefaultLanguage == "javascript"
\* what the editor shows before the first init
LoadingCode == "// Loading...\n"
SessionNotFound == "Session not found"
\* process.env.BASE_URL, or the default built from PORT
BaseUrl == "http://localhost:3001"

\* ------------------------------------------------------------ value sets
Conns == 1..MaxConns
NoConn == 0
\* uuidv4() never returns the same id twice: ids are handed out in order.
SessionIds == 1..MaxSessions
\* null / undefined (falsy) session id
Null == 0
\* an id a client names that uuidv4() never produced
BogusId == -1
Codes == {"x=1", "print(1)"}
Languages == {"javascript", "python"}
\* the ways a message reaches no case: unparsable, a type the switch does not
\* know, no type at all
Malformed == {"invalidJson", "unknownType", "missingType"}
UserIds == {"u1"}
Positions == {7}
NoTimer == -1
\* the value of a property the payload does not have
Undefined == "<undefined>"
NotEmpty == -1

VARIABLES
  sessions,          \* the Map: id -> [code, language, clients, ageHours]
  nextId,            \* index of the next id uuidv4() returns
  numConns,          \* connections accepted so far
  readyState,        \* ws.readyState of each connection
  currentSessionId,  \* the closure variable of each connection
  timerIn,           \* hours until the grace setTimeout armed by a connection's close fires
  sweepIn,           \* hours until the setInterval sweep fires next
  sent,              \* messages passed to send() on each connection by the last handler
  last,              \* the handler that ran last
  idleHours,         \* whole hours a session's client set has been empty (capped)
  written,           \* per session, the code and language of the latest processed edits
  up,                \* per connection, messages the client sent that the server has not processed
  down,              \* per connection, messages the server sent that the client has not received
  got,               \* per connection, the messages its client has received, in order
  editor,            \* per connection, the code state of its client
  edits,             \* number of edits clients have sent
  room               \* per connection, the interview room (browser side) that created it

\* the server's variables
server == <<sessions, nextId, numConns, readyState, currentSessionId, timerIn,
            sweepIn, sent, last, idleHours, written>>

\* the clients' and the sockets' variables
wire == <<up, down, got, editor, edits, room>>

vars == <<sessions, nextId, numConns, readyState, currentSessionId, timerIn,
          sweepIn, sent, last, idleHours, written, up, down, got, editor, edits,
          room>>

NoSent == [c \in Conns |-> <<>>]

\* no room has created connection c yet.  socket is the readyState of the
\* browser's WebSocket, sessionId the id in the room's route, mounted whether
\* the room is still shown, language its language state, instance the room
\* instance that created the socket, first the type of the first message sent
NoRoom == [socket |-> "NONE", sessionId |-> Null, mounted |-> FALSE,
           language |-> DefaultLanguage, instance |-> NoConn, first |-> ""]

Event(op, conn, sid, val, ok) ==
  [op |-> op, conn |-> conn, sid |-> sid, val |-> val, ok |-> ok, closed |-> {}]

\* sessions.get(id) is defined
Has(id) == id \in DOMAIN sessions

\* the sessions whose client set holds c
MemberOf(c) == {s \in DOMAIN sessions : c \in sessions[s].clients}

\* -------------------------------------------------------------- messages
ErrorMsg == [type |-> "error", message |-> SessionNotFound]
\* init built from the defaults instead of the session's current fields
InitMsg_Defaults(s) == [type |-> "init", code |-> DefaultCode,
                        language |-> DefaultLanguage,
                        participants |-> Cardinality(s.clients)]

InitMsg(s) == [type |-> "init", code |-> s.code, language |-> s.language,
               participants |-> Cardinality(s.clients)]
\* the count taken without the connection that triggered it
ParticipantsMsg_OffByOne(s) ==
  [type |-> "participants", count |-> Cardinality(s.clients) - 1]

ParticipantsMsg(s) == [type |-> "participants", count |-> Cardinality(s.clients)]
CodeUpdateMsg(code) == [type |-> "codeUpdate", code |-> code]
LanguageUpdateMsg(language) == [type |-> "languageUpdate", language |-> language]
CursorUpdateMsg(userId, position) ==
  [type |-> "cursorUpdate", userId |-> userId, position |-> position]

\* JSON.stringify(msg): a property whose value is undefined is left out
JSONstringify(msg) ==
  [k \in {f \in DOMAIN msg :
            ~(f \in {"code", "language"} /\ msg[f] = Undefined)} |-> msg[k]]

\* ws.send(JSON.stringify(msg)) on connection c, appended to the log snt
Send(snt, c, msg) == [snt EXCEPT ![c] = Append(@, JSONstringify(msg))]

\* a broadcast that, for an id that is not in the store, goes to every open
\* connection
broadcastToSession_UnknownToEverybody(sess, snt, sessionId, message, excludeWs) ==
  IF sessionId \notin DOMAIN sess
  THEN [c \in Conns |->
          IF c # excludeWs /\ readyState[c] = "OPEN"
          THEN Append(snt[c], JSONstringify(message))
          ELSE snt[c]]
  ELSE [c \in Conns |->
          IF c \in sess[sessionId].clients /\ c # excludeWs /\ readyState[c] = "OPEN"
          THEN Append(snt[c], JSONstringify(message))
          ELSE snt[c]]

\* a broadcast that reaches the open members of every session in the store
broadcastToSession_EverySession(sess, snt, sessionId, message, excludeWs) ==
  IF sessionId \notin DOMAIN sess THEN snt
  ELSE [c \in Conns |->
          IF /\ \E s \in DOMAIN sess : c \in sess[s].clients
             /\ c # excludeWs
             /\ readyState[c] = "OPEN"
          THEN Append(snt[c], JSONstringify(message))
          ELSE snt[c]]

\* the broadcast without the `client !== excludeWs` test
broadcastToSession_NoExclude(sess, snt, sessionId, message, excludeWs) ==
  IF sessionId \notin DOMAIN sess THEN snt
  ELSE [c \in Conns |->
          IF c \in sess[sessionId].clients /\ readyState[c] = "OPEN"
          THEN Append(snt[c], JSONstringify(message))
          ELSE snt[c]]

\* a broadcast that gives up when it meets a member whose socket is not open
broadcastToSession_AbortOnClosed(sess, snt, sessionId, message, excludeWs) ==
  IF sessionId \notin DOMAIN sess THEN snt
  ELSE IF \E m \in sess[sessionId].clients \ {excludeWs} : readyState[m] # "OPEN"
  THEN snt
  ELSE [c \in Conns |->
          IF c \in sess[sessionId].clients /\ c # excludeWs /\ readyState[c] = "OPEN"
          THEN Append(snt[c], JSONstringify(message))
          ELSE snt[c]]

\* broadcastToSession(sessionId, message, excludeWs) over the map sess
broadcastToSession(sess, snt, sessionId, message, excludeWs) ==
  IF sessionId \notin DOMAIN sess THEN snt
  ELSE [c \in Conns |->
          IF c \in sess[sessionId].clients /\ c # excludeWs /\ readyState[c] = "OPEN"
          THEN Append(snt[c], JSONstringify(message))
          ELSE snt[c]]

Init ==
  /\ sessions = <<>>
  /\ nextId = 1
  /\ numConns = 0
  /\ readyState = [c \in Conns |-> "NONE"]
  /\ currentSessionId = [c \in Conns |-> Null]
  /\ timerIn = [c \in Conns |-> NoTimer]
  /\ sweepIn = SweepInterval
  /\ sent = NoSent
  /\ last = Event("init", NoConn, Null, "", TRUE)
  /\ idleHours = [s \in SessionIds |-> NotEmpty]
  /\ written = <<>>
  /\ up = NoSent
  /\ down = NoSent
  /\ got = NoSent
  /\ editor = [c \in Conns |-> LoadingCode]
  /\ edits = 0
  /\ room = [c \in Conns |-> NoRoom]

\* The interval timer is due on the hour, before anything else of that hour.
SweepPending == sweepIn = 0

\* the answer to POST /api/sessions: res.json sends status 200
CreateResponse(sessionId) ==
  [status |-> 200,
   body |-> [sessionId |-> sessionId, url |-> <<BaseUrl, "/interview/", sessionId>>]]

\* a session created without the starting code
CreateSession_EmptyCode ==
  /\ ~SweepPending
  /\ nextId <= MaxSessions
  /\ sessions' = [s \in DOMAIN sessions \cup {nextId} |->
                    IF s = nextId
                    THEN [code |-> "", language |-> DefaultLanguage,
                          clients |-> {}, ageHours |-> 0]
                    ELSE sessions[s]]
  /\ nextId' = nextId + 1
  /\ idleHours' = [idleHours EXCEPT ![nextId] = 0]
  /\ written' = [s \in DOMAIN written \cup {nextId} |->
                   IF s = nextId
                   THEN [code |-> "", language |-> DefaultLanguage]
                   ELSE written[s]]
  /\ sent' = NoSent
  /\ last' = Event("create", NoConn, nextId, CreateResponse(nextId), TRUE)
  /\ UNCHANGED <<numConns, readyState, currentSessionId, timerIn, sweepIn>>

\* a creation whose answer gives the base url only
CreateSession_UrlWithoutId ==
  /\ ~SweepPending
  /\ nextId <= MaxSessions
  /\ sessions' = [s \in DOMAIN sessions \cup {nextId} |->
                    IF s = nextId
                    THEN [code |-> DefaultCode, language |-> DefaultLanguage,
                          clients |-> {}, ageHours |-> 0]
                    ELSE sessions[s]]
  /\ nextId' = nextId + 1
  /\ idleHours' = [idleHours EXCEPT ![nextId] = 0]
  /\ written' = [s \in DOMAIN written \cup {nextId} |->
                   IF s = nextId
                   THEN [code |-> DefaultCode, language |-> DefaultLanguage]
                   ELSE written[s]]
  /\ sent' = NoSent
  /\ last' = Event("create", NoConn, nextId, [CreateResponse(nextId) EXCEPT !.body.url = <<BaseUrl>>], TRUE)
  /\ UNCHANGED <<numConns, readyState, currentSessionId, timerIn, sweepIn>>

\* POST /api/sessions
CreateSession ==
  /\ ~SweepPending
  /\ nextId <= MaxSessions
  /\ sessions' = [s \in DOMAIN sessions \cup {nextId} |->
                    IF s = nextId
                    THEN [code |-> DefaultCode, language |-> DefaultLanguage,
                          clients |-> {}, ageHours |-> 0]
                    ELSE sessions[s]]
  /\ nextId' = nextId + 1
  /\ idleHours' = [idleHours EXCEPT ![nextId] = 0]
  /\ written' = [s \in DOMAIN written \cup {nextId} |->
                   IF s = nextId
                   THEN [code |-> DefaultCode, language |-> DefaultLanguage]
                   ELSE written[s]]
  /\ sent' = NoSent
  /\ last' = Event("create", NoConn, nextId, CreateResponse(nextId), TRUE)
  /\ UNCHANGED <<numConns, readyState, currentSessionId, timerIn, sweepIn>>

\* wss.on('connection')
Connect ==
  /\ ~SweepPending
  /\ numConns < MaxConns
  /\ numConns' = numConns + 1
  /\ readyState' = [readyState EXCEPT ![numConns + 1] = "OPEN"]
  /\ currentSessionId' = [currentSessionId EXCEPT ![numConns + 1] = Null]
  /\ sent' = NoSent
  /\ last' = Event("connect", numConns + 1, Null, "", TRUE)
  /\ UNCHANGED <<sessions, nextId, timerIn, sweepIn, idleHours, written>>

\* a 'message' event can be delivered on c: the socket is open, or it is
\* closing and frames of the peer are still arriving
Receiving(c) == ~SweepPending /\ readyState[c] \in {"OPEN", "CLOSING"}

\* ids a join message can name
JoinIds == (1..(nextId - 1)) \cup {BogusId}

\* a join that answers an unknown id by telling every open connection
Join_ErrorToAll(c, sessionId) ==
  /\ Receiving(c)
  /\ currentSessionId' = [currentSessionId EXCEPT ![c] = sessionId]
  /\ IF ~Has(sessionId)
     THEN /\ sent' = [d \in Conns |->
                        IF readyState[d] = "OPEN" \/ d = c THEN <<ErrorMsg>> ELSE <<>>]
          /\ last' = Event("join", c, sessionId, "", FALSE)
          /\ UNCHANGED <<sessions, idleHours>>
     ELSE LET sess == [sessions EXCEPT ![sessionId].clients = @ \cup {c}]
          IN /\ sessions' = sess
             /\ sent' = broadcastToSession(sess,
                           Send(NoSent, c, InitMsg(sess[sessionId])),
                           sessionId, ParticipantsMsg(sess[sessionId]), NoConn)
             /\ last' = Event("join", c, sessionId, "", TRUE)
             /\ idleHours' = [idleHours EXCEPT ![sessionId] = NotEmpty]
  /\ UNCHANGED <<nextId, numConns, readyState, timerIn, sweepIn, written>>

\* a join that creates the session it does not find
Join_Upsert(c, sessionId) ==
  /\ Receiving(c)
  /\ currentSessionId' = [currentSessionId EXCEPT ![c] = sessionId]
  /\ IF ~Has(sessionId) /\ sessionId \notin SessionIds
     THEN /\ sent' = Send(NoSent, c, ErrorMsg)
          /\ last' = Event("join", c, sessionId, "", FALSE)
          /\ UNCHANGED <<sessions, idleHours>>
     ELSE LET made == [s \in DOMAIN sessions \cup {sessionId} |->
                         IF s \in DOMAIN sessions THEN sessions[s]
                         ELSE [code |-> DefaultCode, language |-> DefaultLanguage,
                               clients |-> {}, ageHours |-> 0]]
              sess == [made EXCEPT ![sessionId].clients = @ \cup {c}]
          IN /\ sessions' = sess
             /\ sent' = broadcastToSession(sess,
                           Send(NoSent, c, InitMsg(sess[sessionId])),
                           sessionId, ParticipantsMsg(sess[sessionId]), NoConn)
             /\ last' = Event("join", c, sessionId, "", TRUE)
             /\ idleHours' = [idleHours EXCEPT ![sessionId] = NotEmpty]
  /\ UNCHANGED <<nextId, numConns, readyState, timerIn, sweepIn, written>>

\* a join that broadcasts the participants count before it sends the init
Join_BroadcastFirst(c, sessionId) ==
  /\ Receiving(c)
  /\ currentSessionId' = [currentSessionId EXCEPT ![c] = sessionId]
  /\ IF ~Has(sessionId)
     THEN /\ sent' = Send(NoSent, c, ErrorMsg)
          /\ last' = Event("join", c, sessionId, "", FALSE)
          /\ UNCHANGED <<sessions, idleHours>>
     ELSE LET sess == [sessions EXCEPT ![sessionId].clients = @ \cup {c}]
          IN /\ sessions' = sess
             /\ sent' = Send(broadcastToSession(sess, NoSent, sessionId,
                                                ParticipantsMsg(sess[sessionId]), NoConn),
                             c, InitMsg(sess[sessionId]))
             /\ last' = Event("join", c, sessionId, "", TRUE)
             /\ idleHours' = [idleHours EXCEPT ![sessionId] = NotEmpty]
  /\ UNCHANGED <<nextId, numConns, readyState, timerIn, sweepIn, written>>

\* case 'join'
\* a join that takes a connection which is already a member out of the set
Join_Toggle(c, sessionId) ==
  /\ Receiving(c)
  /\ currentSessionId' = [currentSessionId EXCEPT ![c] = sessionId]
  /\ IF ~Has(sessionId)
     THEN /\ sent' = Send(NoSent, c, ErrorMsg)
          /\ last' = Event("join", c, sessionId, "", FALSE)
          /\ UNCHANGED <<sessions, idleHours>>
     ELSE LET sess == [sessions EXCEPT ![sessionId].clients =
                         IF c \in @ THEN @ \ {c} ELSE @ \cup {c}]
          IN /\ sessions' = sess
             /\ sent' = broadcastToSession(sess,
                           Send(NoSent, c, InitMsg(sess[sessionId])),
                           sessionId, ParticipantsMsg(sess[sessionId]), NoConn)
             /\ last' = Event("join", c, sessionId,
                              IF c \in sessions[sessionId].clients THEN "member" ELSE "",
                              TRUE)
             /\ idleHours' = [idleHours EXCEPT ![sessionId] = NotEmpty]
  /\ UNCHANGED <<nextId, numConns, readyState, timerIn, sweepIn, written>>

\* ws.on('message'), case 'join'; the event records whether the connection
\* was in the session's client set already
Join(c, sessionId) ==
  /\ Receiving(c)
  /\ currentSessionId' = [currentSessionId EXCEPT ![c] = sessionId]
  /\ IF ~Has(sessionId)
     THEN /\ sent' = Send(NoSent, c, ErrorMsg)
          /\ last' = Event("join", c, sessionId, "", FALSE)
          /\ UNCHANGED <<sessions, idleHours>>
     ELSE LET sess == [sessions EXCEPT ![sessionId].clients = @ \cup {c}]
          IN /\ sessions' = sess
             /\ sent' = broadcastToSession(sess,
                           Send(NoSent, c, InitMsg(sess[sessionId])),
                           sessionId, ParticipantsMsg(sess[sessionId]), NoConn)
             /\ last' = Event("join", c, sessionId,
                              IF c \in sessions[sessionId].clients THEN "member" ELSE "",
                              TRUE)
             /\ idleHours' = [idleHours EXCEPT ![sessionId] = NotEmpty]
  /\ UNCHANGED <<nextId, numConns, readyState, timerIn, sweepIn, written>>

\* a codeChange that stores the code in every session of the store
CodeChange_EverySession(c, code) ==
  /\ Receiving(c)
  /\ LET cur == currentSessionId[c]
     IN IF cur # Null /\ Has(cur)
        THEN LET sess == [s \in DOMAIN sessions |-> [sessions[s] EXCEPT !.code = code]]
             IN /\ sessions' = sess
                /\ sent' = broadcastToSession(sess, NoSent, cur, CodeUpdateMsg(code), c)
                /\ last' = Event("codeChange", c, cur, code, TRUE)
                /\ written' = [written EXCEPT ![cur].code = code]
        ELSE /\ sent' = NoSent
             /\ last' = Event("codeChange", c, cur, code, FALSE)
             /\ UNCHANGED <<sessions, written>>
  /\ UNCHANGED <<nextId, numConns, readyState, currentSessionId, timerIn,
                 sweepIn, idleHours>>

\* a codeChange that keeps the stored code once somebody has edited it
CodeChange_FirstWriteWins(c, code) ==
  /\ Receiving(c)
  /\ LET cur == currentSessionId[c]
     IN IF cur # Null /\ Has(cur)
        THEN LET sess == [sessions EXCEPT
                            ![cur].code = IF @ = DefaultCode THEN code ELSE @]
             IN /\ sessions' = sess
                /\ sent' = broadcastToSession(sess, NoSent, cur, CodeUpdateMsg(code), c)
                /\ last' = Event("codeChange", c, cur, code, TRUE)
                /\ written' = [written EXCEPT ![cur].code = code]
        ELSE /\ sent' = NoSent
             /\ last' = Event("codeChange", c, cur, code, FALSE)
             /\ UNCHANGED <<sessions, written>>
  /\ UNCHANGED <<nextId, numConns, readyState, currentSessionId, timerIn,
                 sweepIn, idleHours>>

\* case 'codeChange'

CodeChange(c, code) ==
  /\ Receiving(c)
  /\ LET cur == currentSessionId[c]
     IN IF cur # Null /\ Has(cur)
        THEN LET sess == [sessions EXCEPT ![cur].code = code]
             IN /\ sessions' = sess
                /\ sent' = broadcastToSession(sess, NoSent, cur, CodeUpdateMsg(code), c)
                /\ last' = Event("codeChange", c, cur, code, TRUE)
                /\ written' = [written EXCEPT ![cur].code = code]
        ELSE /\ sent' = NoSent
             /\ last' = Event("codeChange", c, cur, code, FALSE)
             /\ UNCHANGED <<sessions, written>>
  /\ UNCHANGED <<nextId, numConns, readyState, currentSessionId, timerIn,
                 sweepIn, idleHours>>

\* a languageChange that also puts the editor back to the starting code
LanguageChange_ResetsCode(c, language) ==
  /\ Receiving(c)
  /\ LET cur == currentSessionId[c]
     IN IF cur # Null /\ Has(cur)
        THEN LET sess == [sessions EXCEPT ![cur].language = language,
                                          ![cur].code = DefaultCode]
             IN /\ sessions' = sess
                /\ sent' = broadcastToSession(sess, NoSent, cur,
                                              LanguageUpdateMsg(language), c)
                /\ last' = Event("languageChange", c, cur, language, TRUE)
                /\ written' = [written EXCEPT ![cur].language = language]
        ELSE /\ sent' = NoSent
             /\ last' = Event("languageChange", c, cur, language, FALSE)
             /\ UNCHANGED <<sessions, written>>
  /\ UNCHANGED <<nextId, numConns, readyState, currentSessionId, timerIn,
                 sweepIn, idleHours>>

\* case 'languageChange'
LanguageChange(c, language) ==
  /\ Receiving(c)
  /\ LET cur == currentSessionId[c]
     IN IF cur # Null /\ Has(cur)
        THEN LET sess == [sessions EXCEPT ![cur].language = language]
             IN /\ sessions' = sess
                /\ sent' = broadcastToSession(sess, NoSent, cur,
                                              LanguageUpdateMsg(language), c)
                /\ last' = Event("languageChange", c, cur, language, TRUE)
                /\ written' = [written EXCEPT ![cur].language = language]
        ELSE /\ sent' = NoSent
             /\ last' = Event("languageChange", c, cur, language, FALSE)
             /\ UNCHANGED <<sessions, written>>
  /\ UNCHANGED <<nextId, numConns, readyState, currentSessionId, timerIn,
                 sweepIn, idleHours>>

\* a cursorPosition that is relayed to the sender as well
CursorPosition_Echo(c, userId, position) ==
  /\ Receiving(c)
  /\ LET cur == currentSessionId[c]
     IN IF cur # Null
        THEN /\ sent' = broadcastToSession(sessions, NoSent, cur,
                                           CursorUpdateMsg(userId, position), NoConn)
             /\ last' = Event("cursorPosition", c, cur, <<userId, position>>, Has(cur))
        ELSE /\ sent' = NoSent
             /\ last' = Event("cursorPosition", c, cur, <<userId, position>>, FALSE)
  /\ UNCHANGED <<sessions, nextId, numConns, readyState, currentSessionId,
                 timerIn, sweepIn, idleHours, written>>

\* case 'cursorPosition'
CursorPosition(c, userId, position) ==
  /\ Receiving(c)
  /\ LET cur == currentSessionId[c]
     IN IF cur # Null
        THEN /\ sent' = broadcastToSession(sessions, NoSent, cur,
                                           CursorUpdateMsg(userId, position), c)
             /\ last' = Event("cursorPosition", c, cur, <<userId, position>>, Has(cur))
        ELSE /\ sent' = NoSent
             /\ last' = Event("cursorPosition", c, cur, <<userId, position>>, FALSE)
  /\ UNCHANGED <<sessions, nextId, numConns, readyState, currentSessionId,
                 timerIn, sweepIn, idleHours, written>>

\* a message the handler has no case for, answered with an error
Unhandled_ErrorReply(c, kind) ==
  /\ Receiving(c)
  /\ sent' = Send(NoSent, c, ErrorMsg)
  /\ last' = Event("unhandled", c, currentSessionId[c], kind, FALSE)
  /\ UNCHANGED <<sessions, nextId, numConns, readyState, currentSessionId,
                 timerIn, sweepIn, idleHours, written>>

\* a message that is not JSON (JSON.parse throws, the catch logs it) or whose
\* type matches no case of the switch
Unhandled(c, kind) ==
  /\ Receiving(c)
  /\ sent' = NoSent
  /\ last' = Event("unhandled", c, currentSessionId[c], kind, FALSE)
  /\ UNCHANGED <<sessions, nextId, numConns, readyState, currentSessionId,
                 timerIn, sweepIn, idleHours, written>>

\* the peer's close frame has arrived: the socket is CLOSING until its 'close'
\* event is emitted
PeerClosing(c) ==
  /\ ~SweepPending
  /\ readyState[c] = "OPEN"
  /\ readyState' = [readyState EXCEPT ![c] = "CLOSING"]
  /\ sent' = NoSent
  /\ last' = Event("closing", c, currentSessionId[c], "", TRUE)
  /\ UNCHANGED <<sessions, nextId, numConns, currentSessionId, timerIn,
                 sweepIn, idleHours, written>>

\* ws.on('close')
Close(c) ==
  /\ ~SweepPending
  /\ readyState[c] \in {"OPEN", "CLOSING"}
  /\ readyState' = [readyState EXCEPT ![c] = "CLOSED"]
  /\ LET cur == currentSessionId[c]
     IN IF cur # Null /\ Has(cur)
        THEN LET sess == [sessions EXCEPT ![cur].clients = @ \ {c}]
             IN /\ sessions' = sess
                /\ sent' = broadcastToSession(sess, NoSent, cur,
                                              ParticipantsMsg(sess[cur]), NoConn)
                /\ last' = Event("close", c, cur, "", TRUE)
                /\ IF sess[cur].clients = {}
                   THEN /\ timerIn' = [timerIn EXCEPT ![c] = Grace]
                        /\ idleHours' =
                             [idleHours EXCEPT
                                ![cur] = IF sessions[cur].clients = {} THEN @ ELSE 0]
                   ELSE UNCHANGED <<timerIn, idleHours>>
        ELSE /\ sent' = NoSent
             /\ last' = Event("close", c, cur, "", FALSE)
             /\ UNCHANGED <<sessions, timerIn, idleHours>>
  /\ UNCHANGED <<nextId, numConns, currentSessionId, sweepIn, written>>

\* the setTimeout callback armed by the close of connection c
\* a grace timer that deletes its session whether or not somebody rejoined
GraceTimer_NoEmptyCheck(c) ==
  /\ ~SweepPending
  /\ timerIn[c] = 0
  /\ timerIn' = [timerIn EXCEPT ![c] = NoTimer]
  /\ LET cur == currentSessionId[c]
     IN IF Has(cur)
        THEN /\ sessions' = [s \in DOMAIN sessions \ {cur} |-> sessions[s]]
             /\ written' = [s \in DOMAIN written \ {cur} |-> written[s]]
             /\ last' = Event("graceTimer", c, cur, {}, TRUE)
        ELSE /\ UNCHANGED <<sessions, written>>
             /\ last' = Event("graceTimer", c, cur, {}, FALSE)
  /\ sent' = NoSent
  /\ UNCHANGED <<nextId, numConns, readyState, currentSessionId, sweepIn, idleHours>>

GraceTimer(c) ==
  /\ ~SweepPending
  /\ timerIn[c] = 0
  /\ timerIn' = [timerIn EXCEPT ![c] = NoTimer]
  /\ LET cur == currentSessionId[c]
     IN IF Has(cur) /\ sessions[cur].clients = {}
        THEN /\ sessions' = [s \in DOMAIN sessions \ {cur} |-> sessions[s]]
             /\ written' = [s \in DOMAIN written \ {cur} |-> written[s]]
             /\ last' = Event("graceTimer", c, cur, {}, TRUE)
        ELSE /\ UNCHANGED <<sessions, written>>
             /\ last' = Event("graceTimer", c, cur,
                              IF Has(cur) THEN sessions[cur].clients ELSE {}, FALSE)
  /\ sent' = NoSent
  /\ UNCHANGED <<nextId, numConns, readyState, currentSessionId, sweepIn, idleHours>>

\* a sweep that spares the sessions somebody is still connected to
Expired_OnlyEmpty(s) == s.ageHours > MaxAgeHours /\ s.clients = {}

\* hoursSinceCreation > 24
Expired(s) == s.ageHours > MaxAgeHours

\* the setInterval callback
Sweep ==
  /\ SweepPending
  /\ sweepIn' = SweepInterval
  /\ LET old == {s \in DOMAIN sessions : Expired(sessions[s])}
         closed == UNION {sessions[s].clients : s \in old}
     IN /\ readyState' = [c \in Conns |->
                            IF c \in closed /\ readyState[c] = "OPEN"
                            THEN "CLOSING" ELSE readyState[c]]
        /\ sessions' = [s \in DOMAIN sessions \ old |-> sessions[s]]
        /\ written' = [s \in DOMAIN written \ old |-> written[s]]
        /\ last' = [Event("sweep", NoConn, Null, "", old # {}) EXCEPT !.closed = closed]
  /\ sent' = NoSent
  /\ UNCHANGED <<nextId, numConns, currentSessionId, timerIn, idleHours>>

\* an hour in which a session that has members does not get older
Advance_OccupiedStayYoung ==
  /\ ~SweepPending
  /\ \A c \in Conns : timerIn[c] # 0
  /\ sweepIn' = sweepIn - 1
  /\ timerIn' = [c \in Conns |-> IF timerIn[c] = NoTimer THEN NoTimer ELSE timerIn[c] - 1]
  /\ sessions' = [s \in DOMAIN sessions |->
                    [sessions[s] EXCEPT !.ageHours =
                       IF sessions[s].clients = {} THEN @ + 1 ELSE @]]
  /\ idleHours' = [s \in SessionIds |->
                      IF Has(s) /\ idleHours[s] # NotEmpty /\ idleHours[s] <= Grace
                      THEN idleHours[s] + 1 ELSE idleHours[s]]
  /\ sent' = NoSent
  /\ last' = Event("tick", NoConn, Null, "", TRUE)
  /\ UNCHANGED <<nextId, numConns, readyState, currentSessionId, written>>

\* one hour passes; every timer due in the current hour has fired
Advance ==
  /\ ~SweepPending
  /\ \A c \in Conns : timerIn[c] # 0
  /\ sweepIn' = sweepIn - 1
  /\ timerIn' = [c \in Conns |-> IF timerIn[c] = NoTimer THEN NoTimer ELSE timerIn[c] - 1]
  /\ sessions' = [s \in DOMAIN sessions |->
                    [sessions[s] EXCEPT !.ageHours = @ + 1]]
  /\ idleHours' = [s \in SessionIds |->
                      IF Has(s) /\ idleHours[s] # NotEmpty /\ idleHours[s] <= Grace
                      THEN idleHours[s] + 1 ELSE idleHours[s]]
  /\ sent' = NoSent
  /\ last' = Event("tick", NoConn, Null, "", TRUE)
  /\ UNCHANGED <<nextId, numConns, readyState, currentSessionId, written>>

\* an hour passes while every session is younger than MaxHours
Tick ==
  /\ \A s \in DOMAIN sessions : sessions[s].ageHours < MaxHours
  /\ Advance

\* an hour passes
Hour == Advance

Next ==
  \/ CreateSession /\ UNCHANGED wire
  \/ Connect /\ UNCHANGED wire
  \/ \E c \in Conns, s \in JoinIds : Join(c, s) /\ UNCHANGED wire
  \/ \E c \in Conns, code \in Codes : CodeChange(c, code) /\ UNCHANGED wire
  \/ \E c \in Conns, l \in Languages : LanguageChange(c, l) /\ UNCHANGED wire
  \/ \E c \in Conns, u \in UserIds, p \in Positions : CursorPosition(c, u, p) /\ UNCHANGED wire
  \/ \E c \in Conns : PeerClosing(c) /\ UNCHANGED wire
  \/ \E c \in Conns : Close(c) /\ UNCHANGED wire
  \/ \E c \in Conns : GraceTimer(c) /\ UNCHANGED wire
  \/ Sweep /\ UNCHANGED wire
  \/ Tick /\ UNCHANGED wire

Spec == Init /\ [][Next]_vars

\* the session lifecycle over its whole 24 hours, edits left out
NextLife ==
  \/ CreateSession /\ UNCHANGED wire
  \/ Connect /\ UNCHANGED wire
  \/ \E c \in Conns, s \in JoinIds : Join(c, s) /\ UNCHANGED wire
  \/ \E c \in Conns : Close(c) /\ UNCHANGED wire
  \/ \E c \in Conns : GraceTimer(c) /\ UNCHANGED wire
  \/ Sweep /\ UNCHANGED wire
  \/ Hour /\ UNCHANGED wire

SpecLife == Init /\ [][NextLife]_vars

\* sessions getting old: creations, connections, joins of sessions that were
\* created, closes, the two timers and the hours
NextAging ==
  \/ CreateSession /\ UNCHANGED wire
  \/ Connect /\ UNCHANGED wire
  \/ \E c \in Conns, s \in 1..(nextId - 1) : Join(c, s) /\ UNCHANGED wire
  \/ \E c \in Conns : Close(c) /\ UNCHANGED wire
  \/ \E c \in Conns : GraceTimer(c) /\ UNCHANGED wire
  \/ Sweep /\ UNCHANGED wire
  \/ Hour /\ UNCHANGED wire

\* the event loop keeps running: a due setTimeout callback fires, the
\* setInterval callback fires every hour, and time goes on.  Nothing obliges
\* anybody to create a session, to connect, to join or to leave.
SpecLifeFair ==
  /\ Init /\ [][NextAging]_vars
  /\ \A c \in Conns : WF_vars(GraceTimer(c) /\ UNCHANGED wire)
  /\ WF_vars(Sweep /\ UNCHANGED wire)
  /\ WF_vars(Hour /\ UNCHANGED wire)

\* ------------------------------------------------------ HTTP lookups
\* a lookup that counts only the members whose socket is open
getSession_OpenOnly(sess, id) ==
  IF id \in DOMAIN sess
  THEN [status |-> 200,
        body |-> JSONstringify(
                   [id |-> id, code |-> sess[id].code, language |-> sess[id].language,
                    participants |->
                      Cardinality({c \in sess[id].clients : readyState[c] = "OPEN"})])]
  ELSE [status |-> 404, body |-> [error |-> SessionNotFound]]

\* the answer to GET /api/sessions/:id over the map sess
getSession(sess, id) ==
  IF id \in DOMAIN sess
  THEN [status |-> 200,
        body |-> JSONstringify(
                   [id |-> id, code |-> sess[id].code, language |-> sess[id].language,
                    participants |-> Cardinality(sess[id].clients)])]
  ELSE [status |-> 404, body |-> [error |-> SessionNotFound]]

\* a health answer that counts the sessions ever created
health_CountsCreated(sess) ==
  [status |-> 200, body |-> [status |-> "healthy", sessions |-> nextId - 1]]

\* the answer to GET /health over the map sess
health(sess) ==
  [status |-> 200, body |-> [status |-> "healthy", sessions |-> Cardinality(DOMAIN sess)]]

\* GET /api/sessions/:id
GetSession(id) ==
  /\ ~SweepPending
  /\ sent' = NoSent
  /\ last' = Event("get", NoConn, id, getSession(sessions, id), Has(id))
  /\ UNCHANGED <<sessions, nextId, numConns, readyState, currentSessionId,
                 timerIn, sweepIn, idleHours, written>>

\* GET /health
Health ==
  /\ ~SweepPending
  /\ sent' = NoSent
  /\ last' = Event("health", NoConn, Null, health(sessions), TRUE)
  /\ UNCHANGED <<sessions, nextId, numConns, readyState, currentSessionId,
                 timerIn, sweepIn, idleHours, written>>

\* what a client may put on the wire: payloads with or without their fields,
\* and messages no case handles, with lookups of what got stored; no time
\* passes
NextPayload ==
  \/ CreateSession /\ UNCHANGED wire
  \/ Connect /\ UNCHANGED wire
  \/ \E c \in Conns, s \in JoinIds \cup {Null} : Join(c, s) /\ UNCHANGED wire
  \/ \E c \in Conns, code \in {"x=1", Undefined} : CodeChange(c, code) /\ UNCHANGED wire
  \/ \E c \in Conns, l \in {"python", Undefined} : LanguageChange(c, l) /\ UNCHANGED wire
  \/ \E c \in Conns, k \in Malformed : Unhandled(c, k) /\ UNCHANGED wire
  \/ \E c \in Conns : Close(c) /\ UNCHANGED wire
  \/ \E id \in JoinIds : GetSession(id) /\ UNCHANGED wire

SpecPayload == Init /\ [][NextPayload]_vars

\* the HTTP endpoints against the session lifecycle over its whole 24 hours;
\* joins name ids that were handed out (in the store or deleted)
NextHttp ==
  \/ CreateSession /\ UNCHANGED wire
  \/ Connect /\ UNCHANGED wire
  \/ \E c \in Conns, s \in 1..(nextId - 1) : Join(c, s) /\ UNCHANGED wire
  \/ \E c \in Conns : Close(c) /\ UNCHANGED wire
  \/ \E c \in Conns : GraceTimer(c) /\ UNCHANGED wire
  \/ Sweep /\ UNCHANGED wire
  \/ Hour /\ UNCHANGED wire
  \/ \E id \in JoinIds : GetSession(id) /\ UNCHANGED wire
  \/ Health /\ UNCHANGED wire

SpecHttp == Init /\ [][NextHttp]_vars

\* ------------------------------------------------- clients and sockets
\* a message in flight or received: who caused it and the number of the
\* client message that caused it (0 for a join, MaxEdits + 1 for a close)
Tag(msg, from, seq) == [msg |-> msg, from |-> from, seq |-> seq]

\* a send that overtakes what is already queued on the socket
Outbound_Prepend(from, seq) ==
  [d \in Conns |->
     [i \in 1..Len(sent'[d]) |-> Tag(sent'[d][i], from, seq)] \o down[d]]

\* every send() of the handler that just ran goes onto its socket, in order
Outbound(from, seq) ==
  [d \in Conns |->
     down[d] \o [i \in 1..Len(sent'[d]) |-> Tag(sent'[d][i], from, seq)]]

\* new WebSocket(wsUrl) for the room of session s, open at once; onopen
\* sends the join
ClientOpen(s) ==
  /\ Connect
  /\ up' = [up EXCEPT ![numConns + 1] =
                <<Tag([type |-> "join", sessionId |-> s], numConns + 1, 0)>>]
  /\ editor' = [editor EXCEPT ![numConns + 1] = LoadingCode]
  /\ room' = [room EXCEPT ![numConns + 1] =
                [NoRoom EXCEPT !.socket = "OPEN", !.sessionId = s, !.mounted = TRUE,
                               !.instance = numConns + 1, !.first = "join"]]
  /\ UNCHANGED <<down, got, edits>>

\* the room of session s is shown: new WebSocket(wsUrl), still connecting.
\* Sockets connect in the order they are created.
RoomMount(s) ==
  /\ numConns < MaxConns
  /\ \A c \in Conns : room[c].socket # "CONNECTING"
  /\ room' = [room EXCEPT ![numConns + 1] =
                [NoRoom EXCEPT !.socket = "CONNECTING", !.sessionId = s,
                               !.mounted = TRUE, !.instance = numConns + 1]]
  /\ editor' = [editor EXCEPT ![numConns + 1] = LoadingCode]
  /\ UNCHANGED <<up, down, got, edits>>
  /\ UNCHANGED server

\* the connection is accepted; ws.onopen sends the join
SocketOpen(c) ==
  /\ room[c].socket = "CONNECTING"
  /\ c = numConns + 1
  /\ Connect
  /\ up' = [up EXCEPT ![c] =
                Append(@, Tag([type |-> "join", sessionId |-> room[c].sessionId], c, 0))]
  /\ room' = [room EXCEPT ![c].socket = "OPEN",
                          ![c].first = IF @ = "" THEN "join" ELSE @]
  /\ UNCHANGED <<down, got, editor, edits>>

\* handleCodeChange without the readyState test
ClientEdit_NoOpenCheck(c, code) ==
  /\ edits < MaxEdits
  /\ room[c].mounted
  /\ editor' = [editor EXCEPT ![c] = code]
  /\ up' = [up EXCEPT ![c] =
               Append(@, Tag([type |-> "codeChange", code |-> code], c, edits + 1))]
  /\ edits' = edits + 1
  /\ room' = [room EXCEPT ![c].first = IF @ = "" THEN "codeChange" ELSE @]
  /\ UNCHANGED <<down, got>>
  /\ UNCHANGED server

\* handleCodeChange
ClientEdit(c, code) ==
  /\ edits < MaxEdits
  /\ room[c].mounted
  /\ editor' = [editor EXCEPT ![c] = code]
  /\ IF room[c].socket = "OPEN"
     THEN /\ up' = [up EXCEPT ![c] =
                      Append(@, Tag([type |-> "codeChange", code |-> code], c, edits + 1))]
          /\ edits' = edits + 1
          /\ room' = [room EXCEPT ![c].first = IF @ = "" THEN "codeChange" ELSE @]
     ELSE UNCHANGED <<up, edits, room>>
  /\ UNCHANGED <<down, got>>
  /\ UNCHANGED server

\* handleLanguageChange
ClientLanguage(c, language) ==
  /\ edits < MaxEdits
  /\ room[c].mounted
  /\ IF room[c].socket = "OPEN"
     THEN /\ up' = [up EXCEPT ![c] =
                      Append(@, Tag([type |-> "languageChange", language |-> language],
                                    c, edits + 1))]
          /\ edits' = edits + 1
          /\ room' = [room EXCEPT ![c].language = language,
                                  ![c].first = IF @ = "" THEN "languageChange" ELSE @]
     ELSE /\ room' = [room EXCEPT ![c].language = language]
          /\ UNCHANGED <<up, edits>>
  /\ UNCHANGED <<down, got, editor>>
  /\ UNCHANGED server

\* ws.on('message') for the oldest message of connection c still in flight
ServerReceive(c) ==
  /\ up[c] # <<>>
  /\ LET m == Head(up[c])
     IN /\ IF m.msg.type = "join"
           THEN Join(c, m.msg.sessionId)
           ELSE IF m.msg.type = "codeChange"
           THEN CodeChange(c, m.msg.code)
           ELSE LanguageChange(c, m.msg.language)
        /\ down' = Outbound(c, m.seq)
  /\ up' = [up EXCEPT ![c] = Tail(@)]
  /\ UNCHANGED <<got, editor, edits, room>>

\* obj.f as a client reads it from a parsed JSON message
Field(obj, f) == IF f \in DOMAIN obj THEN obj[f] ELSE Undefined

\* ws.onmessage for the oldest message in flight to the client of c
ClientReceive(c) ==
  /\ down[c] # <<>>
  /\ readyState[c] # "CLOSED"
  /\ LET m == Head(down[c])
     IN /\ got' = [got EXCEPT ![c] = Append(@, m)]
        /\ editor' = [editor EXCEPT ![c] =
                        IF m.msg.type \in {"init", "codeUpdate"}
                        THEN Field(m.msg, "code")
                        ELSE @]
        /\ room' = [room EXCEPT ![c].language =
                        IF m.msg.type \in {"init", "languageUpdate"}
                        THEN Field(m.msg, "language")
                        ELSE @]
  /\ down' = [down EXCEPT ![c] = Tail(@)]
  /\ UNCHANGED <<up, edits>>
  /\ UNCHANGED server

\* the client leaves (ws.close() on unmount); everything it sent has arrived
\* before the server's 'close' event, what is in flight to it is lost
ClientClose(c) ==
  /\ up[c] = <<>>
  /\ Close(c)
  /\ down' = [Outbound(c, MaxEdits + 1) EXCEPT ![c] = <<>>]
  /\ room' = [room EXCEPT ![c].socket = "CLOSED", ![c].mounted = FALSE]
  /\ UNCHANGED <<up, got, editor, edits>>

\* the connection is lost while the room is still shown: the server's 'close'
\* event and the client's ws.onclose
Drop(c) ==
  /\ up[c] = <<>>
  /\ room[c].mounted
  /\ Close(c)
  /\ down' = [Outbound(c, MaxEdits + 1) EXCEPT ![c] = <<>>]
  /\ room' = [room EXCEPT ![c].socket = "CLOSED"]
  /\ UNCHANGED <<up, got, editor, edits>>

NextClient ==
  \/ CreateSession /\ UNCHANGED wire
  \/ \E s \in JoinIds : ClientOpen(s)
  \/ \E c \in Conns, code \in Codes : ClientEdit(c, code)
  \/ \E c \in Conns : ServerReceive(c)
  \/ \E c \in Conns : ClientReceive(c)
  \/ \E c \in Conns : ClientClose(c)

SpecClient == Init /\ [][NextClient]_vars

\* a room from the moment it is shown: its socket connecting, open, lost;
\* rooms are opened for ids that were handed out, and at most MaxRoomEdits
\* edits are sent
NextRoom ==
  \/ CreateSession /\ UNCHANGED wire
  \/ \E s \in 1..(nextId - 1) : RoomMount(s)
  \/ \E c \in Conns : SocketOpen(c)
  \/ \E c \in Conns : edits < MaxRoomEdits /\ ClientEdit(c, "x=1")
  \/ \E c \in Conns : edits < MaxRoomEdits /\ ClientLanguage(c, "python")
  \/ \E c \in Conns : ServerReceive(c)
  \/ \E c \in Conns : ClientReceive(c)
  \/ \E c \in Conns : Drop(c)
  \/ \E c \in Conns : ClientClose(c)

SpecRoom == Init /\ [][NextRoom]_vars

\* the browser and the server keep running: an accepted connection opens, a
\* message in flight is processed.  Nothing obliges a user to open a room,
\* to type or to leave.
SpecRoomLive ==
  /\ SpecRoom
  /\ \A c \in Conns : WF_vars(SocketOpen(c))
  /\ \A c \in Conns : WF_vars(ServerReceive(c))
  /\ \A c \in Conns : WF_vars(ClientReceive(c))

\* ======================================================================
\*                     server.js, the development server
\* ======================================================================
\* The handlers of server.js as functions of the server's state st, a record
\* of its sessions map, the currentSessionId of each connection's closure,
\* the readyState of each socket, the pending grace timers and the messages
\* sent by the handler that ran last.

DevState ==
  [sessions |-> sessions, currentSessionId |-> currentSessionId,
   readyState |-> readyState, timerIn |-> timerIn, sent |-> sent]

\* function broadcastToSession(sessionId, message, excludeWs = null)
DevBroadcastToSession(st, sess, snt, sessionId, message, excludeWs) ==
  IF sessionId \notin DOMAIN sess THEN snt
  ELSE [c \in Conns |->
          IF /\ c \in sess[sessionId].clients
             /\ c # excludeWs
             /\ st.readyState[c] = "OPEN"
          THEN Append(snt[c], JSONstringify(message))
          ELSE snt[c]]

\* app.post('/api/sessions'), with the id uuidv4() returned
DevCreateSession(st, sessionId) ==
  [st EXCEPT
     !.sessions = [s \in DOMAIN st.sessions \cup {sessionId} |->
                     IF s = sessionId
                     THEN [code |-> "// Start coding here...\n",
                           language |-> "javascript",
                           clients |-> {}, ageHours |-> 0]
                     ELSE st.sessions[s]],
     !.sent = NoSent]

\* wss.on('connection'): let currentSessionId = null
DevConnection(st, c) ==
  [st EXCEPT !.currentSessionId[c] = Null, !.readyState[c] = "OPEN",
             !.sent = NoSent]

\* case 'join'
DevJoin(st, c, sessionId) ==
  IF sessionId \notin DOMAIN st.sessions
  THEN [st EXCEPT
          !.currentSessionId[c] = sessionId,
          !.sent = [NoSent EXCEPT ![c] =
                      <<[type |-> "error", message |-> "Session not found"]>>]]
  ELSE LET sess == [st.sessions EXCEPT ![sessionId].clients = @ \cup {c}]
           session == sess[sessionId]
           init == [type |-> "init", code |-> session.code,
                    language |-> session.language,
                    participants |-> Cardinality(session.clients)]
       IN [st EXCEPT
             !.currentSessionId[c] = sessionId,
             !.sessions = sess,
             !.sent = DevBroadcastToSession(st, sess,
                        [NoSent EXCEPT ![c] = <<JSONstringify(init)>>],
                        sessionId,
                        [type |-> "participants",
                         count |-> Cardinality(session.clients)],
                        NoConn)]

\* case 'codeChange'
DevCodeChange(st, c, code) ==
  LET cur == st.currentSessionId[c]
  IN IF cur # Null /\ cur \in DOMAIN st.sessions
     THEN LET sess == [st.sessions EXCEPT ![cur].code = code]
          IN [st EXCEPT
                !.sessions = sess,
                !.sent = DevBroadcastToSession(st, sess, NoSent, cur,
                           [type |-> "codeUpdate", code |-> code], c)]
     ELSE [st EXCEPT !.sent = NoSent]

\* a languageChange that is broadcast to all clients, as its comment says
DevLanguageChange_ToAll(st, c, language) ==
  LET cur == st.currentSessionId[c]
  IN IF cur # Null /\ cur \in DOMAIN st.sessions
     THEN LET sess == [st.sessions EXCEPT ![cur].language = language]
          IN [st EXCEPT
                !.sessions = sess,
                !.sent = DevBroadcastToSession(st, sess, NoSent, cur,
                           [type |-> "languageUpdate", language |-> language],
                           NoConn)]
     ELSE [st EXCEPT !.sent = NoSent]

\* case 'languageChange'
DevLanguageChange(st, c, language) ==
  LET cur == st.currentSessionId[c]
  IN IF cur # Null /\ cur \in DOMAIN st.sessions
     THEN LET sess == [st.sessions EXCEPT ![cur].language = language]
          IN [st EXCEPT
                !.sessions = sess,
                !.sent = DevBroadcastToSession(st, sess, NoSent, cur,
                           [type |-> "languageUpdate", language |-> language], c)]
     ELSE [st EXCEPT !.sent = NoSent]

\* case 'cursorPosition'
DevCursorPosition(st, c, userId, position) ==
  LET cur == st.currentSessionId[c]
  IN IF cur # Null
     THEN [st EXCEPT
             !.sent = DevBroadcastToSession(st, st.sessions, NoSent, cur,
                        [type |-> "cursorUpdate", userId |-> userId,
                         position |-> position], c)]
     ELSE [st EXCEPT !.sent = NoSent]

\* ws.on('close'); the socket is closed when the event is emitted
DevClose(st, c) ==
  LET cur == st.currentSessionId[c]
      closed == [st EXCEPT !.readyState[c] = "CLOSED", !.sent = NoSent]
  IN IF cur # Null /\ cur \in DOMAIN st.sessions
     THEN LET sess == [st.sessions EXCEPT ![cur].clients = @ \ {c}]
          IN [closed EXCEPT
                !.sessions = sess,
                !.sent = DevBroadcastToSession(closed, sess, NoSent, cur,
                           [type |-> "participants",
                            count |-> Cardinality(sess[cur].clients)],
                           NoConn),
                !.timerIn[c] = IF sess[cur].clients = {}
                               THEN 3600000 \div MsPerHour ELSE @]
     ELSE closed

\* the setTimeout callback of the close of connection c
DevGraceTimer(st, c) ==
  LET cur == st.currentSessionId[c]
  IN [st EXCEPT
        !.timerIn[c] = NoTimer,
        !.sessions = IF cur \in DOMAIN st.sessions /\ st.sessions[cur].clients = {}
                     THEN [s \in DOMAIN st.sessions \ {cur} |-> st.sessions[s]]
                     ELSE @,
        !.sent = NoSent]

\* the setInterval callback
DevSweep(st) ==
  LET old == {s \in DOMAIN st.sessions : st.sessions[s].ageHours > 24}
      closing == UNION {st.sessions[s].clients : s \in old}
  IN [st EXCEPT
        !.readyState = [c \in Conns |->
                          IF c \in closing /\ st.readyState[c] = "OPEN"
                          THEN "CLOSING" ELSE st.readyState[c]],
        !.sessions = [s \in DOMAIN st.sessions \ old |-> st.sessions[s]],
        !.sent = NoSent]

\* what happens to the server without a handler of it running: the peer
\* starts closing socket c, or an hour passes
DevEnvironment(st, e) ==
  IF e.op = "closing"
  THEN [st EXCEPT !.readyState[e.conn] = "CLOSING", !.sent = NoSent]
  ELSE [st EXCEPT
          !.sessions = [s \in DOMAIN st.sessions |->
                          [st.sessions[s] EXCEPT !.ageHours = @ + 1]],
          !.timerIn = [c \in Conns |->
                         IF st.timerIn[c] = NoTimer THEN NoTimer
                         ELSE st.timerIn[c] - 1],
          !.sent = NoSent]

\* server.js given the event e that docker-server.js was given
DevStep(st, e) ==
  CASE e.op = "create" -> DevCreateSession(st, e.sid)
    [] e.op = "connect" -> DevConnection(st, e.conn)
    [] e.op = "join" -> DevJoin(st, e.conn, e.sid)
    [] e.op = "codeChange" -> DevCodeChange(st, e.conn, e.val)
    [] e.op = "languageChange" -> DevLanguageChange(st, e.conn, e.val)
    [] e.op = "cursorPosition" -> DevCursorPosition(st, e.conn, e.val[1], e.val[2])
    [] e.op = "close" -> DevClose(st, e.conn)
    [] e.op = "graceTimer" -> DevGraceTimer(st, e.conn)
    [] e.op = "sweep" -> DevSweep(st)
    [] e.op \in {"closing", "tick"} -> DevEnvironment(st, e)

\* ======================================================================
\*                               claims
\* ======================================================================

\* what one open member receives from an edit or cursor message
Relayed(e) ==
  CASE e.op = "codeChange" -> [type |-> "codeUpdate", code |-> e.val]
    [] e.op = "languageChange" -> [type |-> "languageUpdate", language |-> e.val]
    [] e.op = "cursorPosition" ->
         [type |-> "cursorUpdate", userId |-> e.val[1], position |-> e.val[2]]

IsRelay == last.op \in {"codeChange", "languageChange", "cursorPosition"} /\ last.ok

\* C1: every connection is in the member set of at most one session, whatever
\* joins and closes were processed (a join to B leaves A first).
C1_AtMostOneSession == \A c \in Conns : Cardinality(MemberOf(c)) <= 1

\* C2 (as stated): a message relayed for sender c is not sent to c and is sent
\* exactly once to every other member of the session.
C2_EveryOtherMember ==
  IsRelay =>
    /\ sent[last.conn] = <<>>
    /\ \A m \in sessions[last.sid].clients \ {last.conn} : sent[m] = <<Relayed(last)>>

\* C2 (amended): a message relayed for sender c is not sent to c, is sent exactly
\* once to every other member whose transport is open, and to nobody else.
C2_EveryOtherOpenMember ==
  IsRelay =>
    \A m \in Conns :
      sent[m] = IF /\ m \in sessions[last.sid].clients
                   /\ m # last.conn
                   /\ readyState[m] = "OPEN"
                THEN <<Relayed(last)>>
                ELSE <<>>

\* C2 witness: a codeChange of one member reached the other member and not the sender
C2_Witness ==
  /\ last.op = "codeChange" /\ last.ok
  /\ sent[last.conn] = <<>>
  /\ \E m \in sessions[last.sid].clients \ {last.conn} :
       sent[m] = <<[type |-> "codeUpdate", code |-> "x=1"]>>

\* C3: a join naming an id that is not in the store sends exactly one
\* 'Session not found' error, to the joining connection only, and changes no
\* session: none is created and no member set grows.
C3_JoinUnknown ==
  [][(last'.op = "join" /\ ~last'.ok) =>
       /\ sent' = [c \in Conns |->
                     IF c = last'.conn
                     THEN <<[type |-> "error", message |-> "Session not found"]>>
                     ELSE <<>>]
       /\ sessions' = sessions
       /\ last'.sid \notin DOMAIN sessions']_vars

\* C3 witness: a member of a session was refused an unknown id
C3_Witness ==
  /\ last.op = "join" /\ ~last.ok
  /\ Len(sent[last.conn]) = 1
  /\ MemberOf(last.conn) # {}

\* C4: the init message of a successful join carries the code and the language
\* written by the latest processed codeChange / languageChange on that session
\* (the defaults if there was none).
C4_InitCarriesState ==
  (last.op = "join" /\ last.ok) =>
    /\ Len(sent[last.conn]) >= 1
    /\ sent[last.conn][1].type = "init"
    /\ sent[last.conn][1].code = written[last.sid].code
    /\ sent[last.conn][1].language = written[last.sid].language

\* C4 witness: a connection joins alone, after the editor has gone, and is
\* handed the edited code
C4_Witness ==
  /\ last.op = "join" /\ last.ok
  /\ sessions[last.sid].clients = {last.conn}
  /\ \E d \in Conns : d # last.conn /\ readyState[d] = "CLOSED"
  /\ sent[last.conn][1].code = "print(1)"
  /\ sent[last.conn][1].language = "python"

GotCount(snt, d, n) ==
  /\ Len(snt[d]) >= 1
  /\ snt[d][Len(snt[d])] = [type |-> "participants", count |-> n]
  /\ Cardinality({i \in 1..Len(snt[d]) : snt[d][i].type = "participants"}) = 1

\* C6: after a join or a close changed session S, every open member of S,
\* the joiner included, is sent one participants message whose count is the
\* size of S's member set after the change; a close makes the count smaller.
C6_ParticipantCount ==
  [][(last'.op \in {"join", "close"} /\ last'.ok) =>
       LET S == last'.sid
           n == Cardinality(sessions'[S].clients)
       IN /\ \A d \in sessions'[S].clients :
               readyState'[d] = "OPEN" => GotCount(sent', d, n)
          /\ last'.op = "close" => n < Cardinality(sessions[S].clients)]_vars

\* C6 witness: a close left one open member, who is told the count 1
C6_Witness ==
  /\ last.op = "close" /\ last.ok
  /\ \E d \in sessions[last.sid].clients :
       /\ readyState[d] = "OPEN"
       /\ sent[d] = <<[type |-> "participants", count |-> 1]>>

\* C6 second witness: a join into a session of two, both told the count 2
C6_JoinWitness ==
  /\ last.op = "join" /\ last.ok
  /\ Cardinality(sessions[last.sid].clients) = 2
  /\ \A d \in sessions[last.sid].clients : GotCount(sent, d, 2)

\* C7: a member set holds only live connections whose current session is that
\* session; a closed connection is in no member set.
C7_MembersLiveAndBound ==
  \A s \in DOMAIN sessions : \A c \in sessions[s].clients :
    readyState[c] # "CLOSED" /\ currentSessionId[c] = s

\* C8: the grace timer deletes a session only after its member set has been
\* empty for the whole grace period, and no grace deletion stays pending for a
\* session that has members again.
C8_GraceOnlyAfterFullPeriod ==
  /\ (last.op = "graceTimer" /\ last.ok) => idleHours[last.sid] >= Grace
  /\ \A c \in Conns :
       (timerIn[c] # NoTimer /\ Has(currentSessionId[c])) =>
          sessions[currentSessionId[c]].clients = {}

\* C9: a session whose member set has been empty for longer than the grace
\* period is no longer in the store (never joined or left by its last member),
\* and the idle check keeps a session that has a member.
C9_IdleSessionsRemoved ==
  /\ \A s \in DOMAIN sessions : idleHours[s] <= Grace
  /\ (last.op = "graceTimer" /\ last.val # {}) => Has(last.sid)

\* C10: a sweep deletes every session older than the maximum age, members or
\* not, after calling close on each of its members, and leaves every other
\* session as it was.
C10_SweepDeletesOld ==
  [][last'.op = "sweep" =>
       \A s \in DOMAIN sessions :
         IF sessions[s].ageHours > 24
         THEN /\ s \notin DOMAIN sessions'
              /\ sessions[s].clients \subseteq last'.closed
              /\ \A c \in sessions[s].clients : readyState'[c] # "OPEN"
         ELSE /\ s \in DOMAIN sessions'
              /\ sessions'[s] = sessions[s]]_vars

\* C10 witness: a sweep deleted a session that had members and kept a younger one
C10_Witness ==
  /\ last.op = "sweep" /\ last.ok
  /\ last.closed # {}
  /\ \E c \in last.closed : readyState[c] = "CLOSING"
  /\ DOMAIN sessions # {}

\* C11: deletion is terminal.  An id that was handed out and is no longer in
\* the store (deleted by the grace timer or by the sweep) is never in the store
\* again, whatever is processed later, and every join naming it is answered
\* with the 'Session not found' error.
C11_DeletionTerminal ==
  [][/\ \A id \in 1..(nextId - 1) :
          id \notin DOMAIN sessions => id \notin DOMAIN sessions'
     /\ (/\ last'.op = "join"
         /\ last'.sid \in 1..(nextId - 1)
         /\ last'.sid \notin DOMAIN sessions) =>
           /\ ~last'.ok
           /\ sent'[last'.conn] =
                <<[type |-> "error", message |-> "Session not found"]>>]_vars

\* C11 witness: a connection the sweep closed names the swept session again
\* and is refused
C11_Witness ==
  /\ last.op = "join" /\ ~last.ok
  /\ last.sid \in 1..(nextId - 1)
  /\ readyState[last.conn] = "CLOSING"
  /\ sent[last.conn] = <<[type |-> "error", message |-> "Session not found"]>>

\* C12: a message that is not valid JSON, or whose type is unknown or missing,
\* changes no session (content, language, members), leaves the sender's
\* binding as it was, sends nothing to anybody and does not close or
\* otherwise change the state of any connection.
C12_UnhandledIsIgnored ==
  [][last'.op = "unhandled" =>
       /\ sessions' = sessions
       /\ currentSessionId' = currentSessionId
       /\ \A c \in Conns : sent'[c] = <<>>
       /\ readyState' = readyState]_vars

\* C12 witness: an open member of a session of two sent something unparsable
C12_Witness ==
  /\ last.op = "unhandled" /\ last.val = "invalidJson"
  /\ readyState[last.conn] = "OPEN"
  /\ Has(last.sid)
  /\ last.conn \in sessions[last.sid].clients
  /\ Cardinality(sessions[last.sid].clients) = 2
  /\ sessions[last.sid].code = "x=1"

\* C13: every session in the store has a defined content and a defined
\* language, also after codeChange / languageChange messages that carry no
\* code / language field.
C13_ContentAndLanguageDefined ==
  \A s \in DOMAIN sessions :
    sessions[s].code # Undefined /\ sessions[s].language # Undefined

\* C14: what one connection's messages cause reaches every receiver (in what
\* it has received followed by what is on its way) in the order the server
\* processed them, which is the order they were sent in, and each
\* processed codeChange puts exactly one codeUpdate on the socket of every
\* other open member of the sender's session and nothing on any other socket,
\* so that n codeChange messages in a row give each of them n codeUpdate
\* messages.
C14_PerSenderOrder ==
  [][/\ \A d \in Conns :
          LET st == got'[d] \o down'[d]
          IN \A i, j \in 1..Len(st) :
               (i < j /\ st[i].from = st[j].from) =>
                  /\ st[i].seq <= st[j].seq
                  /\ st[i].msg.type = "codeUpdate" => st[i].seq < st[j].seq
     /\ \A c \in Conns :
          (/\ up[c] # <<>>
           /\ up'[c] = Tail(up[c])
           /\ Head(up[c]).msg.type = "codeChange"
           /\ Has(currentSessionId[c])) =>
             \A d \in Conns :
               down'[d] =
                 IF /\ d \in sessions[currentSessionId[c]].clients
                    /\ d # c
                    /\ readyState[d] = "OPEN"
                 THEN Append(down[d],
                             [msg |-> [type |-> "codeUpdate",
                                       code |-> Head(up[c]).msg.code],
                              from |-> c, seq |-> Head(up[c]).seq])
                 ELSE down[d]]_vars

\* C14 witness: three edits sent in a row by one member have reached the
\* other member as three codeUpdate messages, in the order sent
C14_Witness ==
  \E c, d \in Conns :
    /\ c # d
    /\ Len(got[d]) >= 3
    /\ LET n == Len(got[d])
       IN \A k \in 0..2 :
            /\ got[d][n - k].msg.type = "codeUpdate"
            /\ got[d][n - k].from = c
            /\ got[d][n - k].seq = 3 - k
    /\ Cardinality({i \in 1..Len(got[d]) : got[d][i].msg.type = "codeUpdate"}) = 3

\* nothing is in flight in either direction
Quiescent == \A c \in Conns : up[c] = <<>> /\ down[c] = <<>>

\* C15: whenever nothing is in flight (every codeChange sent is processed,
\* every message delivered and applied), the editor of every connected member
\* of a session shows the session's content, concurrent edits included.
C15_EditorsConverge ==
  Quiescent =>
    \A s \in DOMAIN sessions : \A c \in sessions[s].clients :
      readyState[c] = "OPEN" => editor[c] = sessions[s].code

C17_InitOnceAndFirst ==
  (last.op = "join" /\ last.ok) =>
    LET c == last.conn
        n == Cardinality(sessions[last.sid].clients)
    IN /\ Len(sent[c]) >= 1
       /\ sent[c][1].type = "init"
       /\ \A d \in Conns : \A i \in 1..Len(sent[d]) :
            sent[d][i].type = "init" => (d = c /\ i = 1)
       /\ c \in sessions[last.sid].clients
       /\ sent[c][1].participants = n
       /\ n >= 1

\* C17 witness: the second member joined; it was sent the init counting two
\* and then the participants message, the first member only the latter
C17_Witness ==
  /\ last.op = "join" /\ last.ok
  /\ Len(sent[last.conn]) = 2
  /\ sent[last.conn][1].type = "init"
  /\ sent[last.conn][1].participants = 2
  /\ sent[last.conn][2] = [type |-> "participants", count |-> 2]
  /\ \E d \in Conns \ {last.conn} : sent[d] = <<[type |-> "participants", count |-> 2]>>

\* the handler that ran last broadcast to its session
IsBroadcast ==
  /\ last.op \in {"codeChange", "languageChange", "cursorPosition", "join", "close"}
  /\ last.ok

\* the message that broadcast carried
Broadcast ==
  IF last.op \in {"join", "close"}
  THEN [type |-> "participants", count |-> Cardinality(sessions[last.sid].clients)]
  ELSE Relayed(last)

\* the connection that broadcast left out
Excluded == IF last.op \in {"join", "close"} THEN NoConn ELSE last.conn

\* how often msg is among the messages q
Times(q, msg) == Cardinality({i \in 1..Len(q) : q[i] = msg})

\* C18: when a broadcast meets a member whose transport is not open, that
\* member is skipped, no error message is sent to anybody (the sender
\* included), and every other member that is not excluded and whose transport
\* is open is still sent the message exactly once.
C18_SkipsClosedMembers ==
  (IsBroadcast /\ \E m \in sessions[last.sid].clients : readyState[m] # "OPEN") =>
    /\ \A d \in sessions[last.sid].clients :
         Times(sent[d], Broadcast) =
           IF d # Excluded /\ readyState[d] = "OPEN" THEN 1 ELSE 0
    /\ \A d \in Conns : \A i \in 1..Len(sent[d]) : sent[d][i].type # "error"

\* C18 witness: a connection joined a session whose other member was
\* closing; the joiner was sent the count, the closing member nothing
C18_Witness ==
  /\ last.op = "join" /\ last.ok
  /\ readyState[last.conn] = "OPEN"
  /\ Times(sent[last.conn], [type |-> "participants", count |-> 2]) = 1
  /\ \E m \in sessions[last.sid].clients :
       readyState[m] = "CLOSING" /\ sent[m] = <<>>

\* C19: once a sweep has deleted a session, no connection that was a member
\* of it still records a deleted session id as its current session.
C19_SweptMembersUnbound ==
  last.op = "sweep" =>
    \A c \in last.closed :
      ~(currentSessionId[c] \in 1..(nextId - 1) /\ ~Has(currentSessionId[c]))

\* C20: every session in the store whose member set is empty has a grace
\* timer pending for it, from its creation on.
C20_EmptyHasPendingTimer ==
  \A s \in DOMAIN sessions :
    sessions[s].clients = {} =>
      \E c \in Conns : timerIn[c] # NoTimer /\ currentSessionId[c] = s

\* the connections that are connected and whose current session is s
BoundTo(s) ==
  {c \in Conns : readyState[c] \in {"OPEN", "CLOSING"} /\ currentSessionId[c] = s}

\* C21: every count reported for a session S (the participants field of an
\* init, the count of a participants message, the participants of a lookup)
\* is the number of connected clients whose current session is S.
C21_CountIsBoundClients ==
  /\ (last.op \in {"join", "close"} /\ last.ok) =>
        \A d \in Conns : \A i \in 1..Len(sent[d]) :
          /\ sent[d][i].type = "init" =>
                sent[d][i].participants = Cardinality(BoundTo(last.sid))
          /\ sent[d][i].type = "participants" =>
                sent[d][i].count = Cardinality(BoundTo(last.sid))
  /\ (last.op = "get" /\ last.ok) =>
        last.val.body.participants = Cardinality(BoundTo(last.sid))

\* C22: a session creation adds exactly one session, under an id that was
\* not in the store, with the default content, the language 'javascript' and
\* no members; every session that existed is left as it was, and a lookup of
\* the new id right afterwards answers with those defaults.
C22_CreateAddsDefaultSession ==
  [][last'.op = "create" =>
       LET id == last'.sid
       IN /\ id \notin DOMAIN sessions
          /\ DOMAIN sessions' = DOMAIN sessions \cup {id}
          /\ sessions'[id].code = "// Start coding here...\n"
          /\ sessions'[id].language = "javascript"
          /\ sessions'[id].clients = {}
          /\ \A s \in DOMAIN sessions : sessions'[s] = sessions[s]
          /\ getSession(sessions', id) =
               [status |-> 200,
                body |-> [id |-> id, code |-> "// Start coding here...\n",
                          language |-> "javascript", participants |-> 0]]]_vars

\* C22 witness: a second session was created while the first had a member
\* and edited code
C22_Witness ==
  /\ last.op = "create" /\ last.sid = 2
  /\ Has(1) /\ sessions[1].code = "x=1" /\ sessions[1].clients # {}
  /\ sessions[2].code = "// Start coding here...\n"
  /\ sessions[2].clients = {}

\* C23: a lookup of an id in the store answers 200 with that id, the
\* session's current code and language and the current size of its member
\* set; a lookup of any other id answers 404 with the error 'Session not
\* found'; neither changes any session, binding or socket.
C23_LookupIsPure ==
  [][last'.op = "get" =>
       LET id == last'.sid
           r == last'.val
       IN /\ IF id \in DOMAIN sessions
             THEN /\ r.status = 200
                  /\ r.body.id = id
                  /\ Field(r.body, "code") = sessions[id].code
                  /\ Field(r.body, "language") = sessions[id].language
                  /\ r.body.participants = Cardinality(sessions[id].clients)
             ELSE r = [status |-> 404, body |-> [error |-> "Session not found"]]
          /\ sessions' = sessions
          /\ currentSessionId' = currentSessionId
          /\ readyState' = readyState
          /\ \A c \in Conns : sent'[c] = <<>>]_vars

\* C23 witness: the lookup of a session with two members, edited code and
\* changed language
C23_Witness ==
  /\ last.op = "get" /\ last.ok
  /\ last.val.status = 200
  /\ last.val.body = [id |-> last.sid, code |-> "x=1", language |-> "python",
                       participants |-> 2]

\* C23 second witness: the lookup of an id that is not in the store
C23_NotFoundWitness ==
  /\ last.op = "get" /\ ~last.ok
  /\ last.val.status = 404
  /\ DOMAIN sessions # {}

C25_ClientReconnects ==
  \A c \in Conns :
    (room[c].mounted /\ room[c].socket = "CLOSED") ~>
      (\E d \in Conns \ {c} :
         /\ room[d].instance = room[c].instance
         /\ room[d].sessionId = room[c].sessionId
         /\ room[d].first = "join")

\* C26: on every connection the first message the client sends is a join
\* with the session id of its route, sent in the step in which the socket
\* opens; a codeChange or languageChange is sent only after that join and
\* only while the socket is open.
C26_JoinFirstEditsWhileOpen ==
  [][\A c \in Conns :
       /\ room'[c].first \in {"", "join"}
       /\ Len(up'[c]) > Len(up[c]) =>
            LET m == up'[c][Len(up'[c])]
            IN IF m.msg.type = "join"
               THEN /\ up[c] = <<>>
                    /\ room[c].first = ""
                    /\ room[c].socket # "OPEN"
                    /\ room'[c].socket = "OPEN"
                    /\ m.msg.sessionId = room'[c].sessionId
               ELSE /\ m.msg.type \in {"codeChange", "languageChange"}
                    /\ room[c].first = "join"
                    /\ room[c].socket = "OPEN"]_vars

\* C26 witness: one client typed while its socket was still connecting and
\* nothing was sent; the other sent its join and then an edit
C26_Witness ==
  \E c, d \in Conns :
    /\ room[c].socket = "CONNECTING" /\ editor[c] = "x=1" /\ up[c] = <<>>
    /\ room[d].socket = "OPEN" /\ room[d].first = "join"
    /\ last.op = "codeChange" /\ last.ok /\ last.conn = d
    /\ sessions[last.sid].code = "x=1"

C28_HealthCountsStore ==
  last.op = "health" =>
    last.val = [status |-> 200,
                body |-> [status |-> "healthy",
                          sessions |-> Cardinality(DOMAIN sessions)]]

\* C28 witness: two sessions were created, the sweep deleted one with a
\* member, the other is gone as well, and the health answer counts none
C28_Witness ==
  /\ last.op = "health"
  /\ nextId = 3
  /\ last.val.body.sessions = 0
  /\ \E c \in Conns : readyState[c] = "CLOSING"

\* C28 second witness: after a grace deletion one of two sessions is left
C28_GraceWitness ==
  /\ last.op = "health"
  /\ nextId = 3
  /\ last.val.body.sessions = 1
  /\ \A s \in DOMAIN sessions : sessions[s].ageHours <= 2

\* C29: a join naming an id that is not in the store leaves all state as it
\* was; in particular the joining connection's current session stays what it
\* was before, and so does every member set.
C29_FailedJoinKeepsBinding ==
  [][(last'.op = "join" /\ ~last'.ok) =>
       /\ currentSessionId' = currentSessionId
       /\ sessions' = sessions]_vars

\* C30: a session leaves the store only when a grace timer fires for it while
\* its member set is empty, or when a sweep tick finds it older than the
\* maximum age; a session with a member that is not older than the maximum
\* age survives every step.
C30_RemovedOnlyByTimerOrSweep ==
  [][\A s \in DOMAIN sessions :
       s \notin DOMAIN sessions' =>
         \/ /\ last'.op = "graceTimer"
            /\ last'.sid = s
            /\ sessions[s].clients = {}
         \/ /\ last'.op = "sweep"
            /\ sessions[s].ageHours > MaxAgeHours]_vars

\* a grace timer has just deleted its empty session while another session,
\* which has a member, is still in the store
C30_Witness ==
  /\ last.op = "graceTimer"
  /\ last.ok
  /\ ~Has(last.sid)
  /\ \E s \in DOMAIN sessions : sessions[s].clients # {}

\* a grace timer has fired for a session somebody rejoined, and spared it
C30_SpareWitness ==
  /\ last.op = "graceTimer"
  /\ ~last.ok
  /\ Has(last.sid)
  /\ sessions[last.sid].clients # {}
  /\ sessions[last.sid].ageHours <= MaxAgeHours

\* C31: as long as the sweep keeps ticking and time advances, every session in
\* the store is eventually deleted from it, however its members join and
\* leave.
C31_EverySessionEventuallyDeleted ==
  \A s \in SessionIds : Has(s) ~> ~Has(s)

\* a sweep has just deleted a session that somebody was still a member of:
\* only its age ended it
C31_Witness ==
  /\ last.op = "sweep"
  /\ last.ok
  /\ \E s \in 1..(nextId - 1) : ~Has(s) /\ \E c \in last.closed : currentSessionId[c] = s

\* C32: the code and the language of a session change only in a step that
\* processes a codeChange or a languageChange of a connection which is in that
\* session's member set when the message is processed.
C32_OnlyMembersAlter ==
  [][\A s \in DOMAIN sessions \cap DOMAIN sessions' :
       (sessions'[s].code # sessions[s].code \/
        sessions'[s].language # sessions[s].language) =>
         /\ last'.op \in {"codeChange", "languageChange"}
         /\ last'.sid = s
         /\ last'.conn \in sessions[s].clients]_vars

\* a member's codeChange has just altered its session while another session,
\* of which the sender is not a member, still has its starting code
C32_Witness ==
  /\ last.op = "codeChange"
  /\ last.ok
  /\ sessions[last.sid].code = last.val
  /\ last.val # DefaultCode
  /\ \E s \in DOMAIN sessions :
       /\ s # last.sid
       /\ last.conn \notin sessions[s].clients
       /\ sessions[s].code = DefaultCode

\* C33: a codeChange, languageChange or cursorPosition of a connection that is
\* in no session's member set, as is every connection that has not joined or
\* has joined only ids that are not in the store, changes no session and sends
\* no message to any connection.
C33_UnjoinedSenderIsInert ==
  [][(/\ last'.op \in {"codeChange", "languageChange", "cursorPosition"}
      /\ MemberOf(last'.conn) = {}) =>
       /\ sessions' = sessions
       /\ \A d \in Conns : sent'[d] = <<>>]_vars

\* a connection whose only join named an unknown id has sent a message while
\* another connection is an open member of a session
C33_Witness ==
  /\ last.op \in {"codeChange", "languageChange", "cursorPosition"}
  /\ currentSessionId[last.conn] = BogusId
  /\ MemberOf(last.conn) = {}
  /\ \E s \in DOMAIN sessions :
       \E d \in sessions[s].clients : readyState[d] = "OPEN"

\* a connection that never sent a join has sent a message while another
\* connection is an open member of a session
C33_NoJoinWitness ==
  /\ last.op \in {"codeChange", "languageChange", "cursorPosition"}
  /\ currentSessionId[last.conn] = Null
  /\ \E s \in DOMAIN sessions :
       \E d \in sessions[s].clients : readyState[d] = "OPEN"

\* C34: sessions are isolated.  A join, codeChange, languageChange,
\* cursorPosition or close handled for a session S of the store leaves every
\* other session's code, language and member set as they were, and sends
\* messages only to connections in S's member set.
C34_SessionsIsolated ==
  [][(/\ last'.op \in {"join", "codeChange", "languageChange", "cursorPosition", "close"}
      /\ last'.sid \in DOMAIN sessions) =>
       /\ \A t \in DOMAIN sessions \ {last'.sid} :
            /\ t \in DOMAIN sessions'
            /\ sessions'[t].code = sessions[t].code
            /\ sessions'[t].language = sessions[t].language
            /\ sessions'[t].clients = sessions[t].clients
       /\ \A d \in Conns :
            sent'[d] # <<>> => d \in sessions'[last'.sid].clients]_vars

\* a handler has just sent a message to a member of its session while an open
\* connection that is a member of another session only got nothing
C34_Witness ==
  /\ last.op \in {"join", "codeChange", "languageChange", "cursorPosition", "close"}
  /\ last.ok
  /\ \E d \in Conns : sent[d] # <<>>
  /\ \E t \in DOMAIN sessions \ {last.sid} :
       \E e \in sessions[t].clients :
         /\ readyState[e] = "OPEN"
         /\ e \notin sessions[last.sid].clients
         /\ sent[e] = <<>>

\* C35: a connection gets codeUpdate, languageUpdate, cursorUpdate and
\* participants messages only for the session it joined last: when a handler
\* for session A sends to a connection whose latest successful join named a
\* session B still in the store, then A = B.
C35_OnlyLatestSession ==
  (/\ last.op \in {"join", "codeChange", "languageChange", "cursorPosition", "close"}
   /\ last.ok) =>
    \A d \in Conns :
      (/\ sent[d] # <<>>
       /\ Has(currentSessionId[d])
       /\ d \in sessions[currentSessionId[d]].clients) =>
        currentSessionId[d] = last.sid

\* C36: joining is idempotent on membership.  A join of a connection that is
\* already in the named session's member set leaves that set, and the count
\* announced for it, as they were; and the close of a connection bound to a
\* session leaves no entry of it in that session's member set.
C36_JoinIdempotent ==
  [][/\ (/\ last'.op = "join"
         /\ last'.ok
         /\ last'.conn \in sessions[last'.sid].clients) =>
           /\ sessions'[last'.sid].clients = sessions[last'.sid].clients
           /\ Head(sent'[last'.conn]) =
                [type |-> "init",
                 code |-> sessions[last'.sid].code,
                 language |-> sessions[last'.sid].language,
                 participants |-> Cardinality(sessions[last'.sid].clients)]
           /\ \A d \in Conns \ {last'.conn} :
                sent'[d] \in {<<>>,
                              <<[type |-> "participants",
                                 count |-> Cardinality(sessions[last'.sid].clients)]>>}
     /\ (last'.op = "close" /\ last'.ok) =>
           /\ last'.conn \notin sessions'[last'.sid].clients
           /\ Cardinality(sessions'[last'.sid].clients) =
                Cardinality(sessions[last'.sid].clients \ {last'.conn})]_vars

\* a connection has just joined, as the only member, the session it was a
\* member of already
C36_Witness ==
  /\ last.op = "join"
  /\ last.ok
  /\ last.val = "member"
  /\ sessions[last.sid].clients = {last.conn}

\* C37: docker-server.js and server.js implement the same state machine.
\* Whatever docker-server.js is given in a state (a creation, a connection, a
\* join, codeChange, languageChange or cursorPosition message, a close, a
\* grace timer, a sweep tick), server.js given the same in the same state
\* ends with the same sessions, bindings, sockets and timers and has sent the
\* same messages to the same connections.
C37_SameStateMachine ==
  [][DevStep(DevState, last') = DevState']_vars

\* both servers have relayed an edit to another member of a session
C37_Witness ==
  /\ last.op = "languageChange"
  /\ last.ok
  /\ sent[last.conn] = <<>>
  /\ \E d \in Conns \ {last.conn} :
       sent[d] = <<[type |-> "languageUpdate", language |-> last.val]>>

\* both servers have swept an expired session that still had a member
C37_SweepWitness ==
  /\ last.op = "sweep"
  /\ last.ok
  /\ last.closed # {}
  /\ \E c \in last.closed : ~Has(currentSessionId[c])

====
